---- MODULE Spec2Model ----
(***************************************************************************)
(* Sungrow WiNet-S integration: the websocket session client               *)
(* (sungrow.py), the discovery of inverters (__init__.py) and the          *)
(* per-device update coordinators (coordinator.py), as asyncio tasks that  *)
(* interleave at their await points.  Every action is the completion of    *)
(* one await together with all the synchronous code that follows it up to  *)
(* the next await of the same task.                                        *)
(***************************************************************************)
EXTENDS Integers, Sequences, FiniteSets, TLC

\* ---------------------------------------------------------------- bounds
NumSn == 2          \* serial numbers the gateway can report
NumKeys == 1        \* tracked entity descriptions per coordinator
MaxConn == 3        \* websocket connections opened in one behaviour
MaxTok == 3         \* tokens the gateway issues in one behaviour
MaxFail == 4        \* cap on _failed_update_count
MaxRescan == 2      \* firings of the periodic re-scan timer
MaxRaw == 2         \* largest magnitude of a numeric raw value
MaxCode == 9        \* largest of the small result codes an envelope carries
MaxPend == 2        \* requests on one connection with an answer not yet read

\* ------------------------------------------------------ program constants
RESULT_SUCCESS == 1
RESULT_TOKEN_EXPIRED == 106
RESULT_OTHER == 0
MAX_CONNECTION_ATTEMPTS == 10
MAX_FAILED_UPDATES == 3
SILENT_RETRIES == 3
DEV_TYPE_STRING == 21
DEV_TYPE_HYBRID == 35
DEV_TYPE_OTHER == 7
HTTP_OK == 200
HTTP_ERROR == 500

VARIABLES
    scn,                    \* the environment the behaviour runs in (never changes)
    closed,                 \* ids of the websocket connections whose .closed is true
    conn,                   \* id of the connection self._ws refers to, 0: no _ws attribute
    token,                  \* self.token, 0 is the empty string
    issued,                 \* last token the gateway handed out
    tokenConn,              \* connection over which self.token was received
    locked,                 \* wi_net.coordinator_lock is held
    fr,                     \* per task: the await it is suspended at and its locals
    dloc,                   \* locals of the running discovery cycle
    dloc2,                  \* locals of a discovery cycle started while that one runs
    inverter_coordinators,  \* SungrowWiNet.inverter_coordinators
    battery_coordinators,   \* SungrowWiNet.battery_coordinators
    entry_state,            \* config_entry.state
    rescan_timer,           \* the async_track_time_interval re-scan is registered
    new_listener,           \* sensor platform listens for SUNGROW_DISCOVERY_NEW
    dispatched,             \* coordinators sent with SUNGROW_DISCOVERY_NEW
    rescans,                \* re-scan timer firings so far
    pending,                \* tasks whose requests on self._ws have an answer not yet read
    obs                     \* what the last finished session call or cycle did

vars == <<scn, closed, conn, token, issued, tokenConn, locked, fr, dloc, dloc2,
          inverter_coordinators, battery_coordinators, entry_state,
          rescan_timer, new_listener, dispatched, rescans, pending, obs>>

\* The whole program state as one record, so that a handler is a function
\* from state to state and handlers compose the way calls do.
Cur ==
    [scn |-> scn, closed |-> closed, conn |-> conn, token |-> token,
     issued |-> issued, tokenConn |-> tokenConn, locked |-> locked, fr |-> fr,
     dloc2 |-> dloc2,
     dloc |-> dloc, inverter_coordinators |-> inverter_coordinators,
     battery_coordinators |-> battery_coordinators, entry_state |-> entry_state,
     rescan_timer |-> rescan_timer, new_listener |-> new_listener,
     dispatched |-> dispatched, rescans |-> rescans, pending |-> pending,
     obs |-> obs]

Commit(s) ==
    \E v \in {s} :
        /\ scn' = v.scn
        /\ closed' = v.closed
        /\ conn' = v.conn
        /\ token' = v.token
        /\ issued' = v.issued
        /\ tokenConn' = v.tokenConn
        /\ locked' = v.locked
        /\ fr' = v.fr
        /\ dloc' = v.dloc
        /\ dloc2' = v.dloc2
        /\ inverter_coordinators' = v.inverter_coordinators
        /\ battery_coordinators' = v.battery_coordinators
        /\ entry_state' = v.entry_state
        /\ rescan_timer' = v.rescan_timer
        /\ new_listener' = v.new_listener
        /\ dispatched' = v.dispatched
        /\ rescans' = v.rescans
        /\ pending' = v.pending
        /\ obs' = v.obs

\* ------------------------------------------------------------------ tasks
DiscTask == <<"disc", 1>>
InvTasks == {<<"inv", i>> : i \in 1..NumSn}
BatTasks == {<<"bat", i>> : i \in 1..NumSn}
PollTasks == InvTasks \cup BatTasks
Tasks == {DiscTask} \cup PollTasks
UnloadTask == <<"unload", 1>>
DiscTask2 == <<"disc", 2>>      \* a re-scan started while a discovery cycle runs
AllTasks == Tasks \cup {UnloadTask, DiscTask2}

IdleFrame ==
    [pc |-> "idle", service |-> "none", attempts |-> 0, tries |-> 0,
     silent |-> 0, msgTok |-> 0, msgConn |-> 0, opConn |-> 0,
     n106 |-> 0, failConn |-> 0,
     sawClosed |-> 0]   \* the closed connection the call found when it began (history)

NoCoord == [kind |-> "none"]

IdleDloc ==
    [mode |-> "none", stage |-> "none", infos |-> <<>>, coord |-> NoCoord,
     skipped |-> 0,     \* descriptors the running cycle found already existing (history)
     added |-> 0]       \* coordinators the running cycle appended (history)

NoEv == [kind |-> "none"]
NoObs == [call |-> NoEv, connect |-> NoEv, poll |-> NoEv, cycle |-> NoEv,
          resp |-> NoEv, close |-> NoEv, entity |-> NoEv,
          decode |-> NoEv, http |-> NoEv, recv |-> NoEv]

Keys == 1..NumKeys
KeyStates == {"absent", "null", "value"}
Snapshots == [Keys -> KeyStates]
NoData == <<>>

Ok(d) == [kind |-> "ok", data |-> d]
SungrowError == [kind |-> "SungrowError", data |-> NoData]
OtherError == [kind |-> "other", data |-> NoData]

Begin == [Cur EXCEPT !.obs = NoObs]

\* ------------------------------------------------- sungrow.py: the session
\* hasattr(self, "_ws") and not self._ws.closed
WsOpen(s) == s.conn # 0 /\ s.conn \notin s.closed

\* a loop that allows one attempt more
ConnectLoopCond_inclusive(attempts) == attempts <= MAX_CONNECTION_ATTEMPTS

\* while connection_attempts < 10
ConnectLoopCond(attempts) == attempts < MAX_CONNECTION_ATTEMPTS

\* a connection attempt that keeps the token of the old connection
connect_attempt_keeping_token(s, t) ==
    [s EXCEPT !.fr[t].pc = "ws_connect",
              !.fr[t].tries = @ + 1]

\* One turn of the while loop of _ensure_connected, up to `await ws_connect`.
connect_attempt(s, t) ==
    [s EXCEPT !.token = 0,
              !.fr[t].pc = "ws_connect",
              !.fr[t].tries = @ + 1]

\* _ensure_token after _ensure_connected returned, then the message of
\* _ws_get, up to the next `await send_json`.
ensure_token(s, t) ==
    IF s.token # 0
    THEN [s EXCEPT !.fr[t].pc = "svc_send",
                   !.fr[t].msgTok = s.token,
                   !.fr[t].msgConn = s.tokenConn,
                   !.fr[t].opConn = s.conn]
    ELSE [s EXCEPT !.fr[t].pc = "tok_send",
                   !.fr[t].opConn = s.conn]

\* _ensure_connected from its first line.
ensure_connected(s, t) ==
    IF WsOpen(s)
    THEN ensure_token(s, t)
    ELSE connect_attempt(
            [s EXCEPT !.fr[t].attempts = 0, !.fr[t].tries = 0], t)

\* Top of the `while True` of _ws_get.
ws_get_iter(s, t) == ensure_connected(s, t)

\* A call of _ws_get(service, ...).
ws_get(s, t, service) ==
    ws_get_iter([s EXCEPT !.fr[t] = [IdleFrame EXCEPT
                              !.service = service,
                              !.silent = s.fr[t].silent,
                              !.sawClosed = IF s.conn \in s.closed THEN s.conn ELSE 0]], t)

\* a decoder that has no token-expiry outcome
decode_without_expiry(code) ==
    IF code = RESULT_SUCCESS THEN "result_data" ELSE "SungrowError"

\* a decoder that takes a missing or zero result code for success
decode_lenient(code) ==
    IF code \in {0, RESULT_SUCCESS} THEN "result_data"
    ELSE IF code = RESULT_TOKEN_EXPIRED THEN "TokenExpiredError"
    ELSE "SungrowError"

\* _parse_response: what a result code decodes to.
decode(code) ==
    IF code = RESULT_SUCCESS THEN "result_data"
    ELSE IF code = RESULT_TOKEN_EXPIRED THEN "TokenExpiredError"
    ELSE "SungrowError"

\* a parser that drops the token on every failed response
parse_response_dropping_token(s, code) ==
    [out |-> decode(code),
     state |-> IF decode(code) # "result_data" THEN [s EXCEPT !.token = 0] ELSE s]

\* _parse_response with its effect on the session
parse_response(s, code) ==
    [out |-> decode(code),
     state |-> IF decode(code) = "TokenExpiredError" THEN [s EXCEPT !.token = 0] ELSE s]

\* _parse_response(response) of an envelope with this result_code and
\* result_data: what it returns or raises, and the session it leaves
parse_envelope(s, code, data) ==
    LET p == parse_response(s, code) IN
    [out |-> p.out,
     payload |-> IF p.out = "result_data" THEN data ELSE NoData,
     state |-> [p.state EXCEPT !.obs.decode =
                   [kind |-> "decoded", code |-> code, out |-> p.out,
                    payload |-> IF p.out = "result_data" THEN data ELSE NoData,
                    before |-> [conn |-> s.conn, closed |-> s.closed, token |-> s.token],
                    after |-> [conn |-> p.state.conn, closed |-> p.state.closed,
                               token |-> p.state.token]]]]

\* `except ConnectionError` of _ws_get, up to `await self._ws.close()`.
ws_get_connection_error(s, t) ==
    [s EXCEPT !.closed = @ \cup {s.conn},
              !.fr[t].pc = "ws_close",
              !.fr[t].failConn = s.fr[t].opConn]

\* get_device_type
get_device_type(code) ==
    IF code = DEV_TYPE_STRING THEN "string_inverter"
    ELSE IF code = DEV_TYPE_HYBRID THEN "hybrid_inverter"
    ELSE "unknown"

\* -------------------------------------- coordinator.py: one coordinator
\* valid_descriptions, each description standing for its response key
valid_descriptions == [k \in Keys |-> k]

\* SungrowCoordinatorBase.__init__ (and the subclass __init__)
NewCoord(kind, info) ==
    [kind |-> kind, wi_net_id |-> info.wi_net_id, device_sn |-> info.device_sn,
     device_type |-> info.device_type,
     failed |-> 0, interval |-> "default_interval",
     data |-> NoData, has_unreg |-> FALSE, unreg |-> <<>>,
     listener |-> FALSE,
     origin |-> "none",                 \* the kind of cycle that created it (history)
     consec |-> 0,                      \* polls that raised UpdateFailed since the last success (history)
     reported |-> [k \in Keys |-> 0]]   \* entities constructed per description (history)

\* a threshold that is one failure late
ReachedMaxFailed_late(count) == count = MAX_FAILED_UPDATES + 1

\* if self._failed_update_count == self.MAX_FAILED_UPDATES
ReachedMaxFailed(count) == count = MAX_FAILED_UPDATES

\* a failed update that discards the stored data
update_failed_dropping_data(c) ==
    [c EXCEPT !.failed = @ + 1,
              !.interval = IF ReachedMaxFailed(c.failed + 1)
                           THEN "error_interval" ELSE @,
              !.data = NoData]

\* _async_update_data, `except SungrowError` branch
update_failed(c) ==
    [c EXCEPT !.failed = @ + 1,
              !.interval = IF ReachedMaxFailed(c.failed + 1)
                           THEN "error_interval" ELSE @]

\* every id counts as seen for the first time
FirstSeen_always(c) == TRUE

\* `wi_net_id not in self.unregistered_descriptors`
FirstSeen(c) == ~c.has_unreg

\* an update that merges the fetched data into the stored data
update_ok_merging(c, data) ==
    [c EXCEPT !.failed = 0,
              !.interval = IF c.failed # 0 THEN "default_interval" ELSE @,
              !.has_unreg = TRUE,
              !.unreg = IF FirstSeen(c) THEN valid_descriptions ELSE @,
              !.data = IF c.data = NoData THEN data
                       ELSE [k \in Keys |-> IF data[k] = "absent" THEN c.data[k]
                                            ELSE data[k]]]

\* _async_update_data after _update_method returned, and the coordinator
\* storing the returned data (DataUpdateCoordinator.data)
update_ok(c, data) ==
    [c EXCEPT !.failed = 0,
              !.interval = IF c.failed # 0 THEN "default_interval" ELSE @,
              !.has_unreg = TRUE,
              !.unreg = IF FirstSeen(c) THEN valid_descriptions ELSE @,
              !.data = data]

\* a test that lets a key with a null value through
StaysUnregistered_absent_only(c, d) == c.data[d] = "absent"

\* `key not in device_data` or `device_data[key]["value"] is None`
StaysUnregistered(c, d) == c.data[d] \in {"absent", "null"}

\* _add_entities_for_unregistered_descriptors
add_entities_for_unregistered_descriptors(c) ==
    LET Stays(d) == StaysUnregistered(c, d)
        new_entities == {c.unreg[i] : i \in {j \in 1..Len(c.unreg) : ~Stays(c.unreg[j])}}
    IN [c EXCEPT !.unreg = SelectSeq(c.unreg, Stays),
                 !.reported = [k \in Keys |->
                                  IF k \in new_entities THEN @[k] + 1 ELSE @[k]]]

\* add_entities_for_seen_keys: run once, then listen to every update
add_entities_for_seen_keys(c) ==
    [add_entities_for_unregistered_descriptors(c) EXCEPT !.listener = TRUE]

\* DataUpdateCoordinator.async_update_listeners after a refresh
update_listeners(c) ==
    IF c.listener /\ c.data # NoData
    THEN add_entities_for_unregistered_descriptors(c)
    ELSE c

\* The coordinator a task is refreshing: the one under first refresh for a
\* discovery cycle, the listed one for a polling task.
GetCoord(s, t) ==
    IF t = DiscTask THEN s.dloc.coord
    ELSE IF t[1] = "inv" THEN s.inverter_coordinators[t[2]]
    ELSE s.battery_coordinators[t[2]]

SetCoord(s, t, c) ==
    IF t = DiscTask THEN [s EXCEPT !.dloc.coord = c]
    ELSE IF t[1] = "inv" THEN [s EXCEPT !.inverter_coordinators[t[2]] = c]
    ELSE [s EXCEPT !.battery_coordinators[t[2]] = c]

\* _update_method up to its first await: get_realtime / get_battery_realtime
update_method(s, t) ==
    IF GetCoord(s, t).kind = "inv"
    THEN ws_get([s EXCEPT !.fr[t].silent = 0], t, "real")
    ELSE ws_get([s EXCEPT !.fr[t].silent = 0], t, "real_battery")

\* _async_update_data: `async with self.wi_net.coordinator_lock`
async_update_data(s, t) ==
    IF s.locked
    THEN [s EXCEPT !.fr[t].pc = "lock_wait"]
    ELSE update_method([s EXCEPT !.locked = TRUE], t)

\* ------------------------------------------- __init__.py: discovery cycles
Serials(coordinators) ==
    {coordinators[i].device_sn : i \in 1..Len(coordinators)}

\* a dedup on the gateway-local id instead of the serial number
AlreadyExisting_by_id(s, info) ==
    \E i \in 1..Len(s.inverter_coordinators) :
        s.inverter_coordinators[i].wi_net_id = info.wi_net_id

\* `_inverter_info.device_sn in [inv.inverter_info.device_sn for inv in ...]`
AlreadyExisting(s, info) == info.device_sn \in Serials(s.inverter_coordinators)

\* `_inverter_info.device_type == SungrowDeviceType.HYBRID_INVERTER`
IsHybrid(info) == info.device_type = "hybrid_inverter"

\* a state test that never sees the entry loaded
IsLoaded_never(state) == FALSE

\* a state test that does not tell setup from re-scan
IsLoaded_always(state) == TRUE

\* `self.config_entry.state == ConfigEntryState.LOADED`
IsLoaded(state) == state = "loaded"

\* The discovery task ends: returned ("done") or left by an exception.
EndCycle(s, how) ==
    [s EXCEPT !.fr[DiscTask] = IdleFrame,
              !.obs.cycle = [kind |-> how, mode |-> s.dloc.mode,
                             skipped |-> s.dloc.skipped, added |-> s.dloc.added],
              !.dloc = IdleDloc]

\* sensor.async_setup_entry
sensor_setup(s) ==
    [s EXCEPT !.inverter_coordinators =
                  [i \in 1..Len(@) |-> add_entities_for_seen_keys(@[i])],
              !.battery_coordinators =
                  [i \in 1..Len(@) |-> add_entities_for_seen_keys(@[i])],
              !.new_listener = TRUE]

\* init_devices after `await self._init_devices_inverter()`, then the rest
\* of async_setup_entry; the entry is LOADED when it returns True.
init_devices_done(s) ==
    EndCycle([sensor_setup([s EXCEPT !.rescan_timer = TRUE])
                 EXCEPT !.entry_state = "loaded"], "done")

\* An exception leaves async_setup_entry (setup) or the timer task (re-scan).
cycle_raises(s, exc) ==
    IF s.dloc.mode = "setup"
    THEN EndCycle([s EXCEPT !.entry_state =
                     IF exc = "ConfigEntryNotReady" THEN "setup_retry"
                     ELSE "setup_error"], exc)
    ELSE EndCycle(s, exc)

\* async_dispatcher_send(SUNGROW_DISCOVERY_NEW, _coordinator) and the
\* sensor platform's async_add_new_entities
dispatch_new(s) ==
    LET n == Len(s.inverter_coordinators) IN
    [s EXCEPT !.dispatched = Append(@, s.inverter_coordinators[n].device_sn),
              !.inverter_coordinators[n] =
                  IF s.new_listener THEN add_entities_for_seen_keys(@) ELSE @]

\* The for loop of _init_devices_inverter from the top of an iteration, up
\* to the first await (a first refresh) or to the end of the cycle.
RECURSIVE init_devices_inverter_loop(_)
init_devices_inverter_loop(s) ==
    IF s.dloc.infos = <<>>
    THEN IF s.dloc.mode = "setup" THEN init_devices_done(s) ELSE EndCycle(s, "done")
    ELSE IF AlreadyExisting(s, Head(s.dloc.infos))
         THEN init_devices_inverter_loop([s EXCEPT !.dloc.infos = Tail(@),
                                                   !.dloc.skipped = @ + 1])
         ELSE async_update_data(
                 [s EXCEPT !.dloc.coord = [NewCoord("inv", Head(s.dloc.infos))
                                             EXCEPT !.origin = s.dloc.mode],
                           !.dloc.stage = "inv"], DiscTask)

\* a discovery that lists a coordinator whatever its first refresh gave
first_refresh_done_listing_failed(s, ok) ==
    IF s.dloc.stage = "inv"
    THEN LET s1 == [s EXCEPT !.inverter_coordinators = Append(@, s.dloc.coord),
                             !.dloc.added = @ + 1]
             s2 == IF IsLoaded(s1.entry_state) THEN dispatch_new(s1) ELSE s1
         IN IF IsHybrid(Head(s.dloc.infos))
            THEN async_update_data(
                    [s2 EXCEPT !.dloc.coord = [NewCoord("bat", Head(s.dloc.infos))
                                              EXCEPT !.origin = s.dloc.mode],
                               !.dloc.stage = "bat"], DiscTask)
            ELSE init_devices_inverter_loop(
                    [s2 EXCEPT !.dloc.infos = Tail(@), !.dloc.coord = NoCoord])
    ELSE init_devices_inverter_loop(
            [s EXCEPT !.battery_coordinators = Append(@, s.dloc.coord),
                      !.dloc.added = @ + 1,
                      !.dloc.infos = Tail(@), !.dloc.coord = NoCoord])

\* _init_devices_inverter after `await async_config_entry_first_refresh()`
first_refresh_done(s, ok) ==
    IF ~ok
    THEN cycle_raises(s, "ConfigEntryNotReady")
    ELSE IF s.dloc.stage = "inv"
    THEN LET s1 == [s EXCEPT !.inverter_coordinators = Append(@, s.dloc.coord),
                             !.dloc.added = @ + 1]
             s2 == IF IsLoaded(s1.entry_state) THEN dispatch_new(s1) ELSE s1
         IN IF IsHybrid(Head(s.dloc.infos))
            THEN async_update_data(
                    [s2 EXCEPT !.dloc.coord = [NewCoord("bat", Head(s.dloc.infos))
                                              EXCEPT !.origin = s.dloc.mode],
                               !.dloc.stage = "bat"], DiscTask)
            ELSE init_devices_inverter_loop(
                    [s2 EXCEPT !.dloc.infos = Tail(@), !.dloc.coord = NoCoord])
    ELSE init_devices_inverter_loop(
            [s EXCEPT !.battery_coordinators = Append(@, s.dloc.coord),
                      !.dloc.added = @ + 1,
                      !.dloc.infos = Tail(@), !.dloc.coord = NoCoord])

\* an update that keeps coordinator_lock when the fetch failed
refresh_done_keeping_lock(s, t, r) ==
    LET c == GetCoord(s, t)
        c1 == IF r.kind = "ok" THEN update_ok(c, r.data)
              ELSE IF r.kind = "SungrowError" THEN update_failed(c)
              ELSE c
        c2 == [update_listeners(c1) EXCEPT !.consec =
                  IF r.kind = "ok" THEN 0
                  ELSE IF r.kind = "SungrowError" THEN @ + 1 ELSE @]
        s1 == SetCoord([s EXCEPT !.locked = (r.kind # "ok")], t, c2)
        s2 == [s1 EXCEPT !.obs.poll =
                  [kind |-> IF r.kind = "SungrowError" THEN "UpdateFailed" ELSE r.kind,
                   task |-> t, before |-> c.consec,
                   calls |-> s.fr[t].silent + 1]]
    IN IF t = DiscTask
       THEN first_refresh_done(s2, r.kind = "ok")
       ELSE [s2 EXCEPT !.fr[t] = IdleFrame]

\* _async_update_data leaves its `async with` with result r; the coordinator
\* stores the data and calls its listeners; then the caller goes on.
refresh_done(s, t, r) ==
    LET c == GetCoord(s, t)
        c1 == IF r.kind = "ok" THEN update_ok(c, r.data)
              ELSE IF r.kind = "SungrowError" THEN update_failed(c)
              ELSE c
        c2 == [update_listeners(c1) EXCEPT !.consec =
                  IF r.kind = "ok" THEN 0
                  ELSE IF r.kind = "SungrowError" THEN @ + 1 ELSE @]
        s1 == SetCoord([s EXCEPT !.locked = FALSE], t, c2)
        s2 == [s1 EXCEPT !.obs.poll =
                  [kind |-> IF r.kind = "SungrowError" THEN "UpdateFailed" ELSE r.kind,
                   task |-> t, before |-> c.consec,
                   calls |-> s.fr[t].silent + 1]]
    IN IF t = DiscTask
       THEN first_refresh_done(s2, r.kind = "ok")
       ELSE [s2 EXCEPT !.fr[t] = IdleFrame]

\* a retry loop that gives up at the first failure
LastSilentRetry_first(silent_retry) == silent_retry = 0

\* a retry loop that makes one call more
LastSilentRetry_late(silent_retry) == silent_retry = SILENT_RETRIES

\* `if silent_retry == (self.SILENT_RETRIES - 1): raise`
LastSilentRetry(silent_retry) == silent_retry = SILENT_RETRIES - 1

\* a silent retry that is made after leaving the lock
inverter_update_method_unlocking(s, t, r) ==
    IF r.kind = "SungrowError" /\ ~LastSilentRetry(s.fr[t].silent)
    THEN ws_get([s EXCEPT !.fr[t].silent = @ + 1, !.locked = FALSE], t, "real")
    ELSE refresh_done(s, t, r)

\* SungrowInverterUpdateCoordinator._update_method after get_realtime
inverter_update_method(s, t, r) ==
    IF r.kind = "SungrowError" /\ ~LastSilentRetry(s.fr[t].silent)
    THEN ws_get([s EXCEPT !.fr[t].silent = @ + 1], t, "real")
    ELSE refresh_done(s, t, r)

\* SungrowDeviceInfo of one devicelist row
DeviceInfo(row) ==
    [wi_net_id |-> row.dev_id, device_sn |-> row.dev_sn,
     device_type |-> get_device_type(row.dev_type)]

\* a re-scan that drops the coordinators when its devicelist call fails
get_inverter_infos_resetting(s, r) ==
    IF r.kind = "ok"
    THEN init_devices_inverter_loop(
            [s EXCEPT !.dloc.infos = [i \in 1..Len(r.data) |-> DeviceInfo(r.data[i])],
                      !.dloc.stage = "loop"])
    ELSE IF r.kind = "SungrowError"
    THEN IF IsLoaded(s.entry_state)
         THEN init_devices_inverter_loop(
                 [s EXCEPT !.dloc.infos = <<>>, !.dloc.stage = "loop",
                           !.inverter_coordinators = <<>>,
                           !.battery_coordinators = <<>>])
         ELSE cycle_raises(s, "ConfigEntryNotReady")
    ELSE cycle_raises(s, "other")

\* _get_inverter_infos after `await self.sungrow.get_device_info()`, then
\* _init_devices_inverter
get_inverter_infos(s, r) ==
    IF r.kind = "ok"
    THEN init_devices_inverter_loop(
            [s EXCEPT !.dloc.infos = [i \in 1..Len(r.data) |-> DeviceInfo(r.data[i])],
                      !.dloc.stage = "loop"])
    ELSE IF r.kind = "SungrowError"
    THEN IF IsLoaded(s.entry_state)
         THEN init_devices_inverter_loop(
                 [s EXCEPT !.dloc.infos = <<>>, !.dloc.stage = "loop"])
         ELSE cycle_raises(s, "ConfigEntryNotReady")
    ELSE cycle_raises(s, "other")

\* _ws_get returns r.data or raises r.kind to its caller.
ret_ws_get(s, t, r, code) ==
    LET f == s.fr[t]
        s1 == [s EXCEPT !.obs.call =
                  [kind |-> r.kind, task |-> t, service |-> f.service,
                   data |-> r.data, code |-> code, n106 |-> f.n106,
                   token |-> s.token, conn |-> s.conn, closed |-> s.closed]]
    IN IF f.service = "devicelist" THEN get_inverter_infos(s1, r)
       ELSE IF f.service = "real" THEN inverter_update_method(s1, t, r)
       ELSE refresh_done(s1, t, r)

\* ------------------------------------------------------------ environment
ResultCodes == {RESULT_SUCCESS, RESULT_TOKEN_EXPIRED, RESULT_OTHER}
HttpStatuses == {HTTP_OK, HTTP_ERROR}

\* dev_type the gateway reports for a serial number
DevTypeOf(sn) ==
    IF sn % 3 = 1 THEN DEV_TYPE_HYBRID
    ELSE IF sn % 3 = 2 THEN DEV_TYPE_STRING
    ELSE DEV_TYPE_OTHER

\* devicelist payloads: distinct serial numbers in any order, the gateway
\* numbering the rows (dev_id) by position
DeviceLists ==
    LET Orders == UNION {[1..n -> 1..NumSn] : n \in 0..NumSn}
        Distinct(q) == \A i, j \in DOMAIN q : i # j => q[i] # q[j]
    IN {[i \in DOMAIN q |-> [dev_id |-> i, dev_sn |-> q[i], dev_type |-> DevTypeOf(q[i])]]
          : q \in {o \in Orders : Distinct(o)}}

\* The environments the specifications run in.  "session": a gateway with no
\* device behind it and an unreliable network; "conc": one hybrid inverter
\* behind an unreliable network; "poll": one hybrid inverter and every
\* snapshot; "disc": every device list.  In "poll" and "disc" connections
\* stay up and a request fails by its result code or by a receive error.
\* "unload": the gateway of "session", and the entry is unloaded.
\* "teardown": one hybrid inverter behind a network without failures, polled,
\* re-scanned and unloaded.  "live": one hybrid inverter, polled, behind a
\* gateway that can answer every service request with any result code,
\* without end.  "overlap": the gateway and network of "disc", and the
\* re-scan timer can fire while a discovery cycle runs.
Unreliable(e) == e \in {"session", "conc", "unload"}

DeviceListsIn(e) ==
    IF e \in {"session", "unload"} THEN {<<>>}
    ELSE IF e \in {"disc", "overlap"} THEN DeviceLists
    ELSE {l \in DeviceLists : Len(l) = 1 /\ l[1].dev_type = DEV_TYPE_HYBRID}

\* result codes of service responses and of "connect" responses
ServiceCodes(e) ==
    IF Unreliable(e) \/ e = "live" THEN ResultCodes
    ELSE IF e = "teardown" THEN {RESULT_SUCCESS}
    ELSE {RESULT_SUCCESS, RESULT_OTHER}

TokenCodes(e) ==
    IF Unreliable(e) THEN ResultCodes ELSE {RESULT_SUCCESS}

\* firings of the re-scan timer
MaxRescanIn(e) == IF e = "conc" THEN MaxRescan - 1 ELSE MaxRescan

\* failures in a row after which a coordinator is not polled again
MaxFailIn(e) == IF e = "poll" THEN MaxFail ELSE 1

SnapshotsIn(e) ==
    IF e = "poll" THEN Snapshots ELSE {[k \in Keys |-> "value"]}

ConnectOutcomes(e) ==
    IF e \in {"session", "unload"} THEN {"ok", "TimeoutError", "other"}
    ELSE IF e = "conc" THEN {"ok", "other"}
    ELSE {"ok"}

SendOutcomes(e) ==
    IF Unreliable(e) THEN {"ok", "ConnectionError"} ELSE {"ok"}

RecvRaises(e) ==
    IF Unreliable(e) THEN {"ConnectionError", "other"}
    ELSE IF e = "teardown" THEN {}
    ELSE {"other"}

Payloads(e, service) ==
    IF service = "devicelist" THEN DeviceListsIn(e) ELSE SnapshotsIn(e)

\* A pending send or receive can only succeed on a connection not closed.
OpAlive(s, t) == s.fr[t].opConn \notin s.closed

\* -------------------------------------------------------- session awaits
\* `await self.session.ws_connect(url)` completes.
ws_connect_done(s, t, outcome) ==
    LET f == s.fr[t] IN
    IF outcome = "ok"
    THEN ensure_token(
            [s EXCEPT !.conn = @ + 1,
                      !.pending = <<>>,
                      !.fr[t].attempts = 0,
                      !.fr[t].tries = 0,
                      !.obs.connect = [kind |-> "connected", task |-> t,
                                       tries |-> f.tries, timeouts |-> f.attempts]], t)
    ELSE IF outcome = "TimeoutError"
    THEN [s EXCEPT !.fr[t].attempts = @ + 1, !.fr[t].pc = "sleep"]
    ELSE ret_ws_get(
            [s EXCEPT !.obs.connect = [kind |-> "other", task |-> t,
                                       tries |-> f.tries, timeouts |-> f.attempts]],
            t, OtherError, -1)

\* `await asyncio.sleep(1)` completes: the loop test of _ensure_connected,
\* then the next attempt or the SungrowError after the loop.
sleep_done(s, t) ==
    LET f == s.fr[t] IN
    IF ConnectLoopCond(f.attempts)
    THEN connect_attempt(s, t)
    ELSE ret_ws_get(
            [s EXCEPT !.obs.connect = [kind |-> "SungrowError", task |-> t,
                                       tries |-> f.tries, timeouts |-> f.attempts]],
            t, SungrowError, -1)

\* another task is suspended in receive_json on the websocket of task t
\* (a second receive on an aiohttp websocket raises RuntimeError)
ReceiveBusy(s, t) ==
    \E u \in AllTasks \ {t} :
        /\ s.fr[u].pc \in {"tok_recv", "svc_recv"}
        /\ s.fr[u].opConn = s.fr[t].opConn

\* `await self._ws.send_json(...)` completes (the connect request or the
\* service request) and receive_json is called.
send_done(s, t, outcome) ==
    IF outcome = "ok"
    THEN LET s1 == IF s.fr[t].opConn = s.conn
                   THEN [s EXCEPT !.pending = Append(@, t)] ELSE s
         IN IF ReceiveBusy(s, t) THEN ret_ws_get(s1, t, OtherError, -1)
            ELSE [s1 EXCEPT !.fr[t].pc = IF @ = "tok_send" THEN "tok_recv" ELSE "svc_recv"]
    ELSE ws_get_connection_error(s, t)

\* receive_json takes a message from the websocket: the gateway answers the
\* requests it got on a connection in their order, so the message is the
\* answer to the oldest request not yet answered to a reader.
Received(s, t) ==
    IF s.fr[t].opConn = s.conn /\ s.pending # <<>>
    THEN [s EXCEPT !.pending = Tail(@),
                   !.obs.recv = [kind |-> "received", task |-> t,
                                 of |-> Head(s.pending)]]
    ELSE [s EXCEPT !.obs.recv = [kind |-> "received", task |-> t, of |-> t]]

\* the token the gateway hands out next; in "live" it has MaxTok tokens and
\* hands them out in turn
NextToken(s) == IF s.scn = "live" THEN (s.issued % MaxTok) + 1 ELSE s.issued + 1

\* a token request that is sent again when it was refused
token_response_retrying(s, t, code) ==
    LET s0 == [s EXCEPT !.obs.resp = [kind |-> "connect", task |-> t, code |-> code]] IN
    IF code = RESULT_SUCCESS
    THEN ensure_token([s0 EXCEPT !.token = NextToken(s),
                                 !.issued = NextToken(s),
                                 !.tokenConn = s.fr[t].opConn], t)
    ELSE ensure_token(s0, t)

\* _ensure_token after `await self._ws.receive_json()`
token_response(s, t, code) ==
    LET s0 == [s EXCEPT !.obs.resp = [kind |-> "connect", task |-> t, code |-> code]] IN
    IF code = RESULT_SUCCESS
    THEN ensure_token([s0 EXCEPT !.token = NextToken(s),
                                 !.issued = NextToken(s),
                                 !.tokenConn = s.fr[t].opConn], t)
    ELSE ret_ws_get(s0, t, SungrowError, -1)

\* _ws_get after `await self._ws.receive_json()`
service_response(s, t, code, data) ==
    LET s0 == [s EXCEPT !.obs.resp = [kind |-> "service", task |-> t, code |-> code]]
        p == parse_envelope(s0, code, data) IN
    IF p.out = "result_data" THEN ret_ws_get(p.state, t, Ok(p.payload), code)
    ELSE IF p.out = "TokenExpiredError"
    THEN ws_get_iter([p.state EXCEPT !.fr[t].n106 =
                         IF s.scn = "live" /\ @ >= MaxTok THEN @ ELSE @ + 1], t)
    ELSE ret_ws_get(p.state, t, SungrowError, code)

\* a receive_json raises
recv_raises(s, t, exc) ==
    IF exc = "ConnectionError" THEN ws_get_connection_error(s, t)
    ELSE ret_ws_get(Received(s, t), t, OtherError, -1)

\* an HTTP path that repeats the request after a status other than 200
http_get_retrying_status(s, status, code) ==
    LET p == parse_envelope(s, code, NoData)
        Seen(q, out) ==
            [q EXCEPT !.obs.http =
                [kind |-> "http", status |-> status, code |-> code, out |-> out,
                 before |-> [conn |-> s.conn, closed |-> s.closed, token |-> s.token],
                 after |-> [conn |-> q.conn, closed |-> q.closed, token |-> q.token]]]
    IN
    IF status # HTTP_OK THEN Seen(s, "again")
    ELSE IF p.out = "result_data"
    THEN ws_get([Seen(p.state, "result_data") EXCEPT !.dloc.stage = "list"],
                DiscTask, "devicelist")
    ELSE IF p.out = "TokenExpiredError" THEN Seen(p.state, "again")
    ELSE cycle_raises(Seen(p.state, "SungrowError"), "SungrowError")

\* an HTTP path that answers a token-expiry response by opening the websocket
http_get_reconnecting(s, status, code) ==
    LET p == parse_envelope(s, code, NoData)
        Seen(q, out) ==
            [q EXCEPT !.obs.http =
                [kind |-> "http", status |-> status, code |-> code, out |-> out,
                 before |-> [conn |-> s.conn, closed |-> s.closed, token |-> s.token],
                 after |-> [conn |-> q.conn, closed |-> q.closed, token |-> q.token]]]
    IN
    IF status # HTTP_OK THEN cycle_raises(Seen(s, "SungrowError"), "SungrowError")
    ELSE IF p.out = "result_data"
    THEN ws_get([Seen(p.state, "result_data") EXCEPT !.dloc.stage = "list"],
                DiscTask, "devicelist")
    ELSE IF p.out = "TokenExpiredError"
    THEN connect_attempt(Seen(p.state, "again"), DiscTask)
    ELSE cycle_raises(Seen(p.state, "SungrowError"), "SungrowError")

\* _get after `async with self.session.get(url) as resp`
http_get(s, status, code) ==
    LET p == parse_envelope(s, code, NoData)
        Seen(q, out) ==
            [q EXCEPT !.obs.http =
                [kind |-> "http", status |-> status, code |-> code, out |-> out,
                 before |-> [conn |-> s.conn, closed |-> s.closed, token |-> s.token],
                 after |-> [conn |-> q.conn, closed |-> q.closed, token |-> q.token]]]
    IN
    IF status # HTTP_OK THEN cycle_raises(Seen(s, "SungrowError"), "SungrowError")
    ELSE IF p.out = "result_data"
    THEN ws_get([Seen(p.state, "result_data") EXCEPT !.dloc.stage = "list"],
                DiscTask, "devicelist")
    ELSE IF p.out = "TokenExpiredError" THEN Seen(p.state, "again")
    ELSE cycle_raises(Seen(p.state, "SungrowError"), "SungrowError")

\* ------------------------------------------------ sensor.py: entity values
\* Raw values of a response row: None, a string, an integer, or a float given
\* in units of 0.00001 (none of them a tie of the rounding to four digits).
None == [t |-> "none", s |-> "", n |-> 0]
StrVal(x) == [t |-> "str", s |-> x, n |-> 0]
IntVal(k) == [t |-> "int", s |-> "", n |-> k]
FloatVal(k) == [t |-> "float", s |-> "", n |-> k]

RawValues ==
    {None} \cup {StrVal(x) : x \in {"--", "-", "", "0", "231.5"}}
           \cup {IntVal(k) : k \in -MaxRaw..MaxRaw}
           \cup {FloatVal(k) : k \in -MaxRaw..MaxRaw}

\* the fields of a SungrowSensorEntityDescription that _get_entity_value reads
Descriptions ==
    [value_fn : {"dash_zeroes", "none"},
     invalid_when_falsy : BOOLEAN,
     default_value : {None, IntVal(0)}]

\* `not new_value`
Falsy(v) == v \in {None, StrVal(""), IntVal(0), FloatVal(0)}

\* round(new_value, 4) of a float in units of 0.00001
Round4(k) ==
    LET r == k % 10 IN
    IF r < 5 THEN k - r ELSE k - r + 10

\* a normalization that yields the text "0"
dash_zeroes_as_text(value) == IF value = StrVal("--") THEN StrVal("0") ELSE value

\* dash_zeroes
dash_zeroes(value) == IF value = StrVal("--") THEN IntVal(0) ELSE value

\* value_fn(new_value) when the description has a value_fn
apply_value_fn(d, v) == IF d.value_fn = "dash_zeroes" THEN dash_zeroes(v) ELSE v

\* _get_entity_value for a key that is in the latest data
get_entity_value(d, raw) ==
    IF raw = None THEN d.default_value
    ELSE IF d.invalid_when_falsy /\ Falsy(raw) THEN None
    ELSE LET v == apply_value_fn(d, raw) IN
         IF v.t = "float" THEN FloatVal(Round4(v.n)) ELSE v

\* ------------------------------------------------- __init__.py: unloading
\* The entry is NOT_LOADED and its on_unload callbacks have run: the re-scan
\* timer, the dispatcher connection and the coordinators' listeners are gone.
unload_done(s) ==
    [s EXCEPT !.entry_state = "unloaded",
              !.rescan_timer = FALSE,
              !.new_listener = FALSE,
              !.inverter_coordinators =
                  [i \in 1..Len(@) |-> [@[i] EXCEPT !.listener = FALSE]],
              !.battery_coordinators =
                  [i \in 1..Len(@) |-> [@[i] EXCEPT !.listener = FALSE]],
              !.fr[UnloadTask].pc = "idle"]

\* `if hasattr(self, "_ws")`
HasWs(s) == s.conn # 0

\* close, up to `await self._ws.close()` (which marks the websocket closed)
\* or to its return
close(s, t) ==
    IF HasWs(s)
    THEN [s EXCEPT !.closed = @ \cup {s.conn},
                   !.fr[t].pc = "close",
                   !.fr[t].opConn = s.conn,
                   !.obs.close = [kind |-> "closed"]]
    ELSE [s EXCEPT !.obs.close = [kind |-> "nothing"]]

\* async_unload_entry after `await async_unload_platforms(...)`
unload_platforms_done(s, unload_ok) ==
    IF unload_ok
    THEN LET s1 == close(s, UnloadTask) IN
         IF s1.fr[UnloadTask].pc = "close" THEN s1 ELSE unload_done(s1)
    ELSE [s EXCEPT !.entry_state = "failed_unload", !.fr[UnloadTask] = IdleFrame]

\* ---------------------------------------------------------------- actions
InitIn(e) ==
    /\ scn = e
    /\ closed = {}
    /\ conn = 0
    /\ token = 0
    /\ issued = 0
    /\ tokenConn = 0
    /\ locked = FALSE
    /\ fr = [t \in AllTasks |-> IdleFrame]
    /\ dloc = IdleDloc
    /\ dloc2 = IdleDloc
    /\ inverter_coordinators = <<>>
    /\ battery_coordinators = <<>>
    /\ entry_state = "not_loaded"
    /\ rescan_timer = FALSE
    /\ new_listener = FALSE
    /\ dispatched = <<>>
    /\ rescans = 0
    /\ pending = <<>>
    /\ obs = NoObs

\* async_setup_entry up to the HTTP request of get_wi_net_info
SetupStart ==
    /\ entry_state = "not_loaded"
    /\ Commit([Begin EXCEPT !.entry_state = "setup_in_progress",
                            !.fr[DiscTask].pc = "http_get",
                            !.dloc.mode = "setup",
                            !.dloc.stage = "http"])

HttpGetDone ==
    /\ fr[DiscTask].pc = "http_get"
    /\ \/ \E status \in HttpStatuses, code \in ResultCodes :
             Commit(http_get(Begin, status, code))
       \/ Commit(cycle_raises(Begin, "other"))

\* the periodic re-scan fires: _init_devices_inverter up to its first await
RescanTimer ==
    /\ rescan_timer
    /\ fr[DiscTask].pc = "idle"
    /\ rescans < MaxRescanIn(scn)
    /\ Commit(ws_get([Begin EXCEPT !.rescans = @ + 1,
                                   !.dloc.mode = "rescan",
                                   !.dloc.stage = "list"], DiscTask, "devicelist"))

\* The state as the second discovery cycle sees it: its locals and its
\* frame in the place of the first cycle's.  _init_devices_inverter does
\* not know which of its running invocations it is.
Swap(s) ==
    [s EXCEPT !.dloc = s.dloc2, !.dloc2 = s.dloc,
              !.fr[DiscTask] = s.fr[DiscTask2],
              !.fr[DiscTask2] = s.fr[DiscTask]]

\* the periodic re-scan fires while an earlier re-scan has not returned
RescanOverlap ==
    /\ rescan_timer
    /\ fr[DiscTask].pc # "idle"
    /\ fr[DiscTask2].pc = "idle"
    /\ rescans < MaxRescanIn(scn)
    /\ Commit(Swap(ws_get([Swap(Begin) EXCEPT !.rescans = @ + 1,
                                               !.dloc.mode = "rescan",
                                               !.dloc.stage = "list"],
                           DiscTask, "devicelist")))

Listed(t) ==
    /\ t \in PollTasks
    /\ t[2] <= Len(IF t[1] = "inv" THEN inverter_coordinators ELSE battery_coordinators)

\* a coordinator's scheduled refresh fires
PollTimer(t) ==
    /\ Listed(t)
    /\ fr[t].pc = "idle"
    /\ GetCoord(Cur, t).listener
    /\ GetCoord(Cur, t).failed < MaxFailIn(scn)
    /\ Commit(async_update_data(Begin, t))

LockAcquire(t) ==
    /\ fr[t].pc = "lock_wait"
    /\ ~locked
    /\ Commit(update_method([Begin EXCEPT !.locked = TRUE], t))

WsConnectDone(t) ==
    /\ fr[t].pc = "ws_connect"
    /\ \E outcome \in ConnectOutcomes(scn) :
          /\ outcome = "ok" => conn < MaxConn
          /\ Commit(ws_connect_done(Begin, t, outcome))

SleepDone(t) ==
    /\ fr[t].pc = "sleep"
    /\ Commit(sleep_done(Begin, t))

SendDone(t) ==
    /\ fr[t].pc \in {"tok_send", "svc_send"}
    /\ \E outcome \in SendOutcomes(scn) :
          /\ outcome = "ok" => (OpAlive(Cur, t) /\ Len(pending) < MaxPend)
          /\ Commit(send_done(Begin, t, outcome))

TokenRecvDone(t) ==
    /\ fr[t].pc = "tok_recv"
    /\ \/ /\ OpAlive(Cur, t)
          /\ \E code \in TokenCodes(scn) :
                /\ code = RESULT_SUCCESS => (issued < MaxTok \/ scn = "live")
                /\ Commit(token_response(Received(Begin, t), t, code))
       \/ \E exc \in RecvRaises(scn) : Commit(recv_raises(Begin, t, exc))

ServiceRecvDone(t) ==
    /\ fr[t].pc = "svc_recv"
    /\ \/ /\ OpAlive(Cur, t)
          /\ \E code \in ServiceCodes(scn), data \in Payloads(scn, fr[t].service) :
                Commit(service_response(Received(Begin, t), t, code, data))
       \/ \E exc \in RecvRaises(scn) : Commit(recv_raises(Begin, t, exc))

\* the awaits of the second discovery cycle
OverlapLockAcquire ==
    /\ fr[DiscTask2].pc = "lock_wait"
    /\ ~locked
    /\ Commit(Swap(update_method([Swap(Begin) EXCEPT !.locked = TRUE], DiscTask)))

OverlapSendDone ==
    /\ fr[DiscTask2].pc \in {"tok_send", "svc_send"}
    /\ \E outcome \in SendOutcomes(scn) :
          /\ outcome = "ok" => (OpAlive(Cur, DiscTask2) /\ Len(pending) < MaxPend)
          /\ Commit(Swap(send_done(Swap(Begin), DiscTask, outcome)))

OverlapServiceRecvDone ==
    /\ fr[DiscTask2].pc = "svc_recv"
    /\ \/ /\ OpAlive(Cur, DiscTask2)
          /\ \E code \in ServiceCodes(scn), data \in Payloads(scn, fr[DiscTask2].service) :
                Commit(Swap(service_response(Received(Swap(Begin), DiscTask),
                                             DiscTask, code, data)))
       \/ \E exc \in RecvRaises(scn) : Commit(Swap(recv_raises(Swap(Begin), DiscTask, exc)))

\* `await self._ws.close()` completes: `continue`
WsCloseDone(t) ==
    /\ fr[t].pc = "ws_close"
    /\ Commit(ws_get_iter(Begin, t))

\* async_unload_entry up to `await async_unload_platforms(...)`
UnloadStart ==
    /\ entry_state = "loaded"
    /\ Commit([Begin EXCEPT !.entry_state = "unload_in_progress",
                            !.fr[UnloadTask].pc = "unload_platforms"])

UnloadPlatformsDone ==
    /\ fr[UnloadTask].pc = "unload_platforms"
    /\ \E unload_ok \in BOOLEAN : Commit(unload_platforms_done(Begin, unload_ok))

\* `await wi_net.sungrow.close()` completes
UnloadCloseDone ==
    /\ fr[UnloadTask].pc = "close"
    /\ Commit(unload_done(Begin))

\* validate_host, `finally: await sungrow_websocket.close()`, on a client
\* that never opened a websocket
ConfigFlowClose ==
    /\ entry_state = "not_loaded"
    /\ fr[UnloadTask].pc = "idle"
    /\ Commit(close(Begin, UnloadTask))

\* _handle_coordinator_update of an entity whose key is in the data
EntityUpdate ==
    \E d \in Descriptions, raw \in RawValues :
        Commit([Begin EXCEPT !.obs.entity =
                   [kind |-> "value", desc |-> d, raw |-> raw,
                    fn_out |-> apply_value_fn(d, raw),
                    native |-> get_entity_value(d, raw)]])

SessionNext(t) ==
    \/ WsConnectDone(t)
    \/ SendDone(t)
    \/ TokenRecvDone(t)
    \/ ServiceRecvDone(t)

\* A gateway without devices behind an unreliable network.
NextSession ==
    \/ SetupStart
    \/ HttpGetDone
    \/ RescanTimer
    \/ SleepDone(DiscTask)
    \/ WsCloseDone(DiscTask)
    \/ SessionNext(DiscTask)

SpecSession == InitIn("session") /\ [][NextSession]_vars

\* A gateway without devices, set up, re-scanned and unloaded.
NextUnload ==
    \/ SetupStart
    \/ HttpGetDone
    \/ RescanTimer
    \/ SleepDone(DiscTask)
    \/ WsCloseDone(DiscTask)
    \/ SessionNext(DiscTask)
    \/ ConfigFlowClose
    \/ UnloadStart
    \/ UnloadPlatformsDone
    \/ UnloadCloseDone

SpecUnload == InitIn("unload") /\ [][NextUnload]_vars

\* result codes and payloads of the envelopes handed to the codec
CodecCodes ==
    (0..MaxCode) \cup {RESULT_TOKEN_EXPIRED - 1, RESULT_TOKEN_EXPIRED,
                        RESULT_TOKEN_EXPIRED + 1}

CodecPayloads == Snapshots \cup DeviceLists

\* _parse_response applied to an envelope
Decode ==
    \E code \in CodecCodes, data \in CodecPayloads :
        Commit([parse_envelope(Begin, code, data).state EXCEPT !.obs.resp =
                   [kind |-> "envelope", code |-> code, data |-> data]])

\* The codec on its own, decoding every envelope.
NextCodec == Decode

SpecCodec == InitIn("codec") /\ [][NextCodec]_vars

\* Entities presenting every raw value under every description.
NextSensor == EntityUpdate

SpecSensor == InitIn("sensor") /\ [][NextSensor]_vars

\* One hybrid inverter and its battery, polled, re-scanned and unloaded.
NextTeardown ==
    \/ SetupStart
    \/ HttpGetDone
    \/ RescanTimer
    \/ ConfigFlowClose
    \/ UnloadStart
    \/ UnloadPlatformsDone
    \/ UnloadCloseDone
    \/ \E t \in Tasks :
          \/ PollTimer(t)
          \/ LockAcquire(t)
          \/ SessionNext(t)

SpecTeardown == InitIn("teardown") /\ [][NextTeardown]_vars

\* One hybrid inverter and its battery, polled while a re-scan runs.
Next ==
    \/ SetupStart
    \/ HttpGetDone
    \/ RescanTimer
    \/ \E t \in Tasks :
          \/ PollTimer(t)
          \/ LockAcquire(t)
          \/ WsCloseDone(t)
          \/ SessionNext(t)

Init == InitIn("conc")

Spec == Init /\ [][Next]_vars

\* One hybrid inverter and its battery, polled.
NextPoll ==
    \/ SetupStart
    \/ HttpGetDone
    \/ \E t \in Tasks :
          \/ PollTimer(t)
          \/ LockAcquire(t)
          \/ SessionNext(t)

SpecPoll == InitIn("poll") /\ [][NextPoll]_vars

\* Every device list the gateway can report, setup and re-scans.
NextDisc ==
    \/ SetupStart
    \/ HttpGetDone
    \/ RescanTimer
    \/ \E t \in Tasks :
          \/ PollTimer(t)
          \/ LockAcquire(t)
          \/ SessionNext(t)

SpecDisc == InitIn("disc") /\ [][NextDisc]_vars

\* One hybrid inverter and its battery, polled for ever.  Every await of the
\* session completes (the event loop runs every task that is ready), and
\* asyncio.Lock wakes its waiters in the order they came, so a task that
\* waits for coordinator_lock gets it.
NextLive ==
    \/ SetupStart
    \/ HttpGetDone
    \/ \E t \in Tasks :
          \/ PollTimer(t)
          \/ LockAcquire(t)
          \/ SessionNext(t)

SpecLive ==
    /\ InitIn("live") /\ [][NextLive]_vars
    /\ \A t \in Tasks : WF_vars(SessionNext(t)) /\ SF_vars(LockAcquire(t))

\* Every device list the gateway can report, setup and re-scans, a re-scan
\* starting every time the timer fires, whether the last one has returned
\* or not.
NextOverlap ==
    \/ SetupStart
    \/ HttpGetDone
    \/ RescanTimer
    \/ RescanOverlap
    \/ OverlapLockAcquire
    \/ OverlapSendDone
    \/ OverlapServiceRecvDone
    \/ \E t \in Tasks :
          \/ PollTimer(t)
          \/ LockAcquire(t)
          \/ SessionNext(t)

SpecOverlap == InitIn("overlap") /\ [][NextOverlap]_vars

\* ------------------------------------------------------------------ claims
\* the task is sending a request / has sent one and awaits its response
Sending(t) == fr[t].pc \in {"tok_send", "svc_send"}

AwaitingResponse(t) == fr[t].pc \in {"tok_recv", "svc_recv"}

\* C1: a call of _ws_get never ends on a token-expired response (result
\* code 106), however many of them it gets in a row: it ends without error
\* exactly when a service response carries result code 1, and then returns.
C1_TransparentTokenRetry ==
    obs.call.kind # "none" =>
        /\ obs.call.code # RESULT_TOKEN_EXPIRED
        /\ obs.call.code = RESULT_SUCCESS <=> obs.call.kind = "ok"

\* a call that got two token-expired responses and then a success returned
C1_Witness == obs.call.kind = "ok" /\ obs.call.n106 >= 2

\* C2: while a task has sent a request and not yet received its response,
\* no other task sends a request or awaits a response.
C2_OneExchangeInFlight ==
    \A t1, t2 \in Tasks :
        (t1 # t2 /\ AwaitingResponse(t1)) => ~(Sending(t2) \/ AwaitingResponse(t2))

\* C9: one invocation of _ensure_connected calls ws_connect at most 10
\* times; it returns after attempt i when the i-1 attempts before timed out
\* and attempt i succeeded, and raises SungrowError after exactly 10
\* timeouts, without an 11th attempt.
C9_BoundedConnect ==
    /\ \A t \in Tasks :
          /\ fr[t].pc = "ws_connect" =>
                fr[t].tries = fr[t].attempts + 1 /\ fr[t].tries <= 10
          /\ fr[t].pc = "sleep" => fr[t].tries = fr[t].attempts
    /\ obs.connect.kind = "connected" =>
          /\ obs.connect.tries = obs.connect.timeouts + 1
          /\ obs.connect.tries <= 10
    /\ obs.connect.kind = "SungrowError" =>
          /\ obs.connect.tries = 10
          /\ obs.connect.timeouts = 10

\* ten attempts timed out and _ensure_connected raised
C9_Witness == obs.connect.kind = "SungrowError"

\* C10: after a ConnectionError in _ws_get the service request is sent
\* again only on a connection opened after the failed one, with a token
\* received over that connection.
C10_RetryReconnects ==
    \A t \in Tasks :
        (fr[t].pc \in {"svc_send", "svc_recv"} /\ fr[t].failConn # 0) =>
            /\ fr[t].opConn > fr[t].failConn
            /\ fr[t].msgTok # 0
            /\ fr[t].msgConn = fr[t].opConn

ListedTasks == {t \in PollTasks : Listed(t)}

InSeq(x, q) == \E i \in 1..Len(q) : q[i] = x

\* C3: a listed coordinator whose last 3 or more polls raised UpdateFailed
\* has update_interval = error_interval, and right after a successful poll
\* it has update_interval = default_interval and _failed_update_count = 0.
C3_Backoff ==
    \A t \in ListedTasks :
        /\ GetCoord(Cur, t).consec >= 3 => GetCoord(Cur, t).interval = "error_interval"
        /\ (obs.poll.kind = "ok" /\ obs.poll.task = t) =>
              /\ GetCoord(Cur, t).interval = "default_interval"
              /\ GetCoord(Cur, t).failed = 0

\* a poll succeeded after three or more failed ones
C3_Witness ==
    /\ obs.poll.kind = "ok"
    /\ obs.poll.task \in PollTasks
    /\ obs.poll.before >= 3

\* C4: no two inverter coordinators have the same serial number and no two
\* battery coordinators have the same parent serial number.
C4_DiscoveryDedup ==
    /\ \A i, j \in 1..Len(inverter_coordinators) :
          i # j => inverter_coordinators[i].device_sn # inverter_coordinators[j].device_sn
    /\ \A i, j \in 1..Len(battery_coordinators) :
          i # j => battery_coordinators[i].device_sn # battery_coordinators[j].device_sn

\* a re-scan ended that found a serial number which already had a coordinator
C4_Witness ==
    /\ obs.cycle.kind = "done"
    /\ obs.cycle.mode = "rescan"
    /\ obs.cycle.skipped >= 1

BatteriesOf(sn) ==
    {i \in 1..Len(battery_coordinators) : battery_coordinators[i].device_sn = sn}

\* C5: once the entry is loaded and no discovery cycle is running, every
\* hybrid inverter coordinator has exactly one battery coordinator with its
\* serial number and every other inverter coordinator has none.
C5_HybridTwoLoops ==
    (entry_state = "loaded" /\ fr[DiscTask].pc = "idle") =>
        \A i \in 1..Len(inverter_coordinators) :
            Cardinality(BatteriesOf(inverter_coordinators[i].device_sn)) =
                IF inverter_coordinators[i].device_type = "hybrid_inverter" THEN 1 ELSE 0

\* C6: for every listed coordinator an entity is constructed at most once
\* per description, and a description an entity was constructed for is not
\* in unregistered_descriptors.
C6_SeenOnce ==
    \A t \in ListedTasks : \A k \in Keys :
        /\ GetCoord(Cur, t).reported[k] <= 1
        /\ GetCoord(Cur, t).reported[k] = 1 => ~InSeq(k, GetCoord(Cur, t).unreg)

\* a description was reported and its key has since gone null or missing
C6_Witness ==
    \E t \in ListedTasks : \E k \in Keys :
        /\ GetCoord(Cur, t).reported[k] = 1
        /\ GetCoord(Cur, t).data[k] # "value"

C8_RescanFailureSwallowed ==
    (/\ obs.call.kind \in {"SungrowError", "other"}
     /\ obs.call.service = "devicelist"
     /\ obs.cycle.kind # "none"
     /\ obs.cycle.mode = "rescan") =>
        /\ obs.cycle.kind = "done"
        /\ obs.cycle.added = 0

\* C11: a step in which a call receives a service response with a result
\* code other than 1 and 106 ends that call with SungrowError, and at its
\* return the token, the connection and the closed connections are what they
\* were before the response.
C11_OtherCodeFailsOnce ==
    [][(obs'.resp.kind = "service"
        /\ obs'.resp.code \notin {RESULT_SUCCESS, RESULT_TOKEN_EXPIRED}) =>
          /\ obs'.call.kind = "SungrowError"
          /\ obs'.call.task = obs'.resp.task
          /\ obs'.call.code = obs'.resp.code
          /\ obs'.call.token = token
          /\ obs'.call.conn = conn
          /\ obs'.call.closed = closed]_vars

\* a call failed on another result code after a token-expired response,
\* holding a token on an open connection
C11_Witness ==
    /\ obs.resp.kind = "service"
    /\ obs.resp.code = RESULT_OTHER
    /\ obs.call.kind = "SungrowError"
    /\ obs.call.n106 >= 1
    /\ obs.call.token # 0
    /\ obs.call.conn \notin obs.call.closed

\* C12: a call of the session ends for its caller with a result or with
\* SungrowError, whatever the transport did.
C12_OnlySungrowError ==
    obs.call.kind \in {"none", "ok", "SungrowError"}

\* number of SUNGROW_DISCOVERY_NEW events sent for a serial number
Published(sn) == Cardinality({i \in 1..Len(dispatched) : dispatched[i] = sn})

\* C13: an inverter accepted by a re-scan has exactly one
\* SUNGROW_DISCOVERY_NEW event, one accepted by the initial setup has none,
\* and every event is for an accepted inverter.
C13_PublishedOnce ==
    /\ \A i \in 1..Len(inverter_coordinators) :
          Published(inverter_coordinators[i].device_sn) =
              IF inverter_coordinators[i].origin = "rescan" THEN 1 ELSE 0
    /\ \A i \in 1..Len(dispatched) : dispatched[i] \in Serials(inverter_coordinators)

\* a re-scan accepted a device and skipped one that already had a loop,
\* next to a device accepted by the initial setup
C13_Witness ==
    /\ obs.cycle.kind = "done"
    /\ obs.cycle.mode = "rescan"
    /\ obs.cycle.skipped >= 1
    /\ obs.cycle.added >= 1
    /\ \E i \in 1..Len(inverter_coordinators) : inverter_coordinators[i].origin = "setup"

\* C14: once the entry is unloaded no task opens a connection and no task
\* starts sending a request.
C14_TeardownQuiesces ==
    [][entry_state = "unloaded" =>
          /\ conn' = conn
          /\ \A t \in Tasks :
                fr'[t].pc \in {"tok_send", "svc_send"} => fr'[t].pc = fr[t].pc]_vars

\* the listed coordinator of a polling task
Loop(t) == GetCoord(Cur, t)

\* C15: a poll of a listed coordinator that succeeds leaves exactly the
\* fetched snapshot as its data, and one that fails leaves its data unchanged.
C15_SnapshotCaching ==
    [][\A t \in ListedTasks :
          (obs'.poll.kind # "none" /\ obs'.poll.task = t) =>
              Loop(t)'.data = IF obs'.poll.kind = "ok" THEN obs'.call.data
                              ELSE Loop(t).data]_vars

\* a successful poll whose response lacks a key that had a value before
C15_Witness ==
    /\ obs.poll.kind = "ok"
    /\ obs.poll.task \in ListedTasks
    /\ \E k \in Keys :
          /\ Loop(obs.poll.task).reported[k] = 1
          /\ Loop(obs.poll.task).data[k] = "absent"

\* every coordinator of list p is at the same place in list q
Keeps(p, q) ==
    /\ Len(p) <= Len(q)
    /\ \A i \in 1..Len(p) :
          /\ q[i].kind = p[i].kind
          /\ q[i].device_sn = p[i].device_sn
          /\ q[i].wi_net_id = p[i].wi_net_id

\* C16: no step removes or replaces a coordinator of inverter_coordinators
\* or battery_coordinators.
C16_LoopsNeverRemoved ==
    [][/\ Keeps(inverter_coordinators, inverter_coordinators')
       /\ Keeps(battery_coordinators, battery_coordinators')]_vars

\* a re-scan failed while loops existed
C16_Witness ==
    /\ obs.cycle.kind = "done"
    /\ obs.cycle.mode = "rescan"
    /\ obs.call.kind = "SungrowError"
    /\ obs.call.service = "devicelist"
    /\ Len(inverter_coordinators) >= 1

\* the session client's own state
SessionOf(s) == [conn |-> s.conn, closed |-> s.closed, token |-> s.token]

\* close called twice leaves the session as close called once, and a call
\* begun after close() sends its service request on a connection opened
\* after the closed one, with a token received after it was closed
C17_AfterClose ==
    /\ SessionOf(close(close(Cur, UnloadTask), UnloadTask)) =
          SessionOf(close(Cur, UnloadTask))
    /\ \A t \in Tasks :
          (/\ fr[t].pc \in {"svc_send", "svc_recv"}
           /\ fr[t].sawClosed # 0
           /\ fr[t].sawClosed = fr[UnloadTask].opConn) =>
              /\ fr[t].opConn > fr[t].sawClosed
              /\ fr[t].msgTok # 0
              /\ fr[t].msgConn > fr[t].sawClosed

\* C17: close() on a client that never opened a websocket changes nothing;
\* closing twice is closing once; a call made after close() opens a new
\* connection and gets a token over it before it sends its request.
C17_CloseIdempotent ==
    [][/\ (obs'.close.kind # "none" /\ conn = 0) =>
             /\ obs'.close.kind = "nothing"
             /\ SessionOf(Cur)' = SessionOf(Cur)
       /\ C17_AfterClose']_vars

\* a call begun after close() sends its service request
C17_Witness ==
    \E t \in Tasks :
        /\ fr[t].pc = "svc_send"
        /\ fr[t].sawClosed # 0
        /\ fr[t].sawClosed = fr[UnloadTask].opConn

\* C18: under a description whose value_fn is dash_zeroes the raw value "--"
\* is presented as the integer 0, and dash_zeroes returns every other raw
\* value as it is.
C18_DashToZero ==
    (obs.entity.kind = "value" /\ obs.entity.desc.value_fn = "dash_zeroes") =>
        IF obs.entity.raw = StrVal("--")
        THEN obs.entity.native = IntVal(0) /\ obs.entity.fn_out = IntVal(0)
        ELSE obs.entity.fn_out = obs.entity.raw

\* the raw value "--" was presented under a description that uses dash_zeroes
C18_Witness ==
    /\ obs.entity.kind = "value"
    /\ obs.entity.desc.value_fn = "dash_zeroes"
    /\ obs.entity.raw = StrVal("--")

\* the polling loop run by task t is inside its fetch: it has entered
\* `async with self.wi_net.coordinator_lock` and not yet left it
InFetch(t) ==
    IF t = DiscTask
    THEN dloc.stage \in {"inv", "bat"} /\ fr[t].pc # "lock_wait"
    ELSE fr[t].pc \notin {"idle", "lock_wait"}

\* C19: at most one polling loop is inside its fetch, and the lock is held
\* exactly while one is; a silent retry of the inverter fetch is made with
\* the lock held before and after it; while one polling loop has a request
\* outstanding no other polling loop sends or awaits one.
C19_MutualExclusion ==
    /\ [](/\ Cardinality({t \in Tasks : InFetch(t)}) <= 1
          /\ locked <=> \E t \in Tasks : InFetch(t)
          /\ \A t, u \in Tasks :
                (t # u /\ InFetch(t) /\ InFetch(u)) =>
                    ~(fr[t].pc # "idle" /\ fr[u].pc # "idle"))
    /\ [][\A t \in Tasks :
             (InFetch(t) /\ fr'[t].silent > fr[t].silent) =>
                 /\ locked /\ locked'
                 /\ InFetch(t)'
                 /\ \A u \in Tasks \ {t} : ~InFetch(u) /\ ~InFetch(u)']_vars

\* one polling loop waits for the lock while another is in a silent retry
C19_Witness ==
    \E t, u \in Tasks :
        /\ t # u
        /\ InFetch(t) /\ fr[t].silent > 0
        /\ fr[u].pc = "lock_wait"

\* C20: a token-expiry response leaves the held token empty and its task about
\* to send "connect" (or to reconnect first); every service request that is
\* sent carries a non-empty token that is the held one, the one the most
\* recent successful "connect" exchange returned.
C20_ReauthOrdering ==
    [][\A t \in Tasks :
          /\ (/\ obs'.resp.kind = "service"
              /\ obs'.resp.task = t
              /\ obs'.resp.code = RESULT_TOKEN_EXPIRED) =>
                 /\ token' = 0
                 /\ fr'[t].pc \in {"tok_send", "ws_connect"}
          /\ (fr[t].pc = "svc_send" /\ fr'[t].pc = "svc_recv") =>
                 /\ fr[t].msgTok # 0
                 /\ fr[t].msgTok = token
                 /\ token = issued]_vars

\* C21: a non-empty held token was obtained over the connection the session
\* holds; a connection is opened only with the token empty, and leaves it
\* empty; a service request is sent on the connection its token was
\* obtained over.
C21_TokenOfConnection ==
    /\ [](token # 0 => tokenConn = conn)
    /\ [][/\ conn' # conn => (token = 0 /\ token' = 0)
          /\ \A t \in Tasks :
                (fr[t].pc = "svc_send" /\ fr'[t].pc = "svc_recv") =>
                    fr[t].msgConn = fr[t].opConn]_vars

\* C22: _ensure_token requests a token only when none is held, and reaches
\* the service request without a "connect" exchange only when one is held,
\* leaving it as it is; a "connect" response with result code 1 stores the
\* returned token and the service request is built with it; with any other
\* result code the call fails with SungrowError in the same step, the held
\* token is the same when the call returns (an empty one stays empty) and no
\* service request is sent.
C22_EnsureToken ==
    [][\A t \in Tasks :
          /\ (fr'[t].pc = "tok_send" /\ fr[t].pc # "tok_send") => token' = 0
          /\ (fr'[t].pc = "svc_send" /\ fr[t].pc \notin {"tok_recv", "svc_send"}) =>
                 /\ token' # 0 /\ token' = token /\ issued' = issued
                 /\ fr'[t].msgTok = token
          /\ (obs'.resp.kind = "connect" /\ obs'.resp.task = t) =>
                 /\ fr[t].pc = "tok_recv"
                 /\ IF obs'.resp.code = RESULT_SUCCESS
                    THEN /\ issued' = issued + 1
                         /\ token' = issued'
                         /\ fr'[t].pc = "svc_send"
                         /\ fr'[t].msgTok = token'
                    ELSE /\ obs'.call.kind = "SungrowError"
                         /\ obs'.call.task = t
                         /\ obs'.call.token = token /\ issued' = issued
                         /\ (token = 0 => (token' = 0 /\ fr'[t].pc # "svc_send"))]_vars

\* a "connect" exchange was refused and the call failed with SungrowError
C22_Witness ==
    /\ obs.resp.kind = "connect"
    /\ obs.resp.code # RESULT_SUCCESS
    /\ obs.call.kind = "SungrowError"
    /\ token = 0

\* C23: result code 1 yields the envelope's result_data, result code 106 the
\* token-expiry outcome and every other result code SungrowError; each
\* envelope has exactly one of the three outcomes.
C23_DecodingRule ==
    (obs.decode.kind = "decoded" /\ obs.resp.kind = "envelope") =>
        /\ obs.decode.code = obs.resp.code
        /\ obs.decode.out \in {"result_data", "TokenExpiredError", "SungrowError"}
        /\ obs.decode.out = "result_data" <=> obs.decode.code = RESULT_SUCCESS
        /\ obs.decode.out = "TokenExpiredError" <=> obs.decode.code = RESULT_TOKEN_EXPIRED
        /\ obs.decode.out = "SungrowError" <=>
              obs.decode.code \notin {RESULT_SUCCESS, RESULT_TOKEN_EXPIRED}
        /\ obs.decode.payload =
              IF obs.decode.code = RESULT_SUCCESS THEN obs.resp.data ELSE NoData

\* an envelope with a result code that is neither 1 nor 106 was decoded
C23_Witness ==
    /\ obs.decode.kind = "decoded"
    /\ obs.resp.kind = "envelope"
    /\ obs.decode.code = 0
    /\ obs.decode.out = "SungrowError"

\* C24: decoding an envelope leaves the connection as it is, and the held
\* token too unless the result code is 106, for which _parse_response
\* empties the held token.
C24_DecodeEffect ==
    obs.decode.kind = "decoded" =>
        obs.decode.after =
            IF obs.decode.code = RESULT_TOKEN_EXPIRED
            THEN [obs.decode.before EXCEPT !.token = 0]
            ELSE obs.decode.before

\* C24 as stated: decoding an envelope leaves the held token and the
\* connection unchanged whatever the result code.
C24_DecodePure ==
    obs.decode.kind = "decoded" => obs.decode.after = obs.decode.before

\* an envelope with result code 106 was decoded while a token was held
C24_Witness ==
    /\ obs.decode.kind = "decoded"
    /\ obs.decode.code = RESULT_TOKEN_EXPIRED
    /\ obs.decode.before.token # 0
    /\ obs.decode.after.token = 0

\* C25: _get opens no websocket connection, starts no "connect" request and
\* leaves the held token and the connection as they are, whatever the HTTP
\* status and the result code of the response.
C25_HttpGetFrame ==
    [][obs'.http.kind = "http" =>
          /\ obs'.http.after = obs'.http.before
          /\ obs'.http.before = [conn |-> conn, closed |-> closed, token |-> token]
          /\ conn' = conn /\ closed' = closed /\ token' = token
          /\ \A t \in Tasks : fr'[t].pc \notin {"tok_send", "tok_recv"}
          /\ obs'.connect.kind = "none"
          /\ obs'.http.out = "again" => fr'[DiscTask].pc = "http_get"
          /\ obs'.http.out = "SungrowError" => fr'[DiscTask].pc = "idle"]_vars

\* an HTTP response with status 200 and result code 106 was handled
C25_Witness ==
    /\ obs.http.kind = "http"
    /\ obs.http.status = HTTP_OK
    /\ obs.http.code = RESULT_TOKEN_EXPIRED

\* C26: a status other than 200 makes _get raise SungrowError without
\* another request; a 200 response with a result code other than 106 ends
\* _get with the decoded payload or with SungrowError; a 200 response with
\* result code 106 makes _get repeat the request.
C26_HttpGetOutcome ==
    [][obs'.http.kind = "http" =>
          /\ fr[DiscTask].pc = "http_get"
          /\ obs'.http.out =
                IF obs'.http.status # HTTP_OK THEN "SungrowError"
                ELSE IF obs'.http.code = RESULT_SUCCESS THEN "result_data"
                ELSE IF obs'.http.code = RESULT_TOKEN_EXPIRED THEN "again"
                ELSE "SungrowError"
          /\ obs'.http.out = "SungrowError" =>
                /\ fr'[DiscTask].pc = "idle"
                /\ obs'.cycle.kind = "SungrowError"
          /\ obs'.http.out = "again" <=> fr'[DiscTask].pc = "http_get"]_vars

\* C26 as stated: every response ends _get, with the decoded payload or
\* with SungrowError, and a status other than 200 with SungrowError.
C26_HttpGetTerminates ==
    [][obs'.http.kind = "http" =>
          /\ obs'.http.out \in {"result_data", "SungrowError"}
          /\ fr'[DiscTask].pc # "http_get"
          /\ obs'.http.status # HTTP_OK => obs'.http.out = "SungrowError"]_vars

\* a response with a status other than 200 ended _get with SungrowError
C26_Witness ==
    /\ obs.http.kind = "http"
    /\ obs.http.status # HTTP_OK
    /\ obs.http.out = "SungrowError"
    /\ fr[DiscTask].pc = "idle"

\* C27: an inverter poll raises UpdateFailed only after 3 `real` calls in a
\* row raised SungrowError; the coordinator has update_interval =
\* error_interval if its last 3 or more polls raised UpdateFailed (9 failed
\* `real` calls in a row) and only if 3 or more did since its last success;
\* right after a successful poll it has update_interval = default_interval.
C27_NineRealFailures ==
    \A t \in ListedTasks :
        t[1] = "inv" =>
            /\ (obs.poll.kind = "UpdateFailed" /\ obs.poll.task = t) =>
                  obs.poll.calls = SILENT_RETRIES
            /\ GetCoord(Cur, t).consec >= MAX_FAILED_UPDATES =>
                  GetCoord(Cur, t).interval = "error_interval"
            /\ GetCoord(Cur, t).interval = "error_interval" =>
                  GetCoord(Cur, t).consec >= MAX_FAILED_UPDATES
            /\ (obs.poll.kind = "ok" /\ obs.poll.task = t) =>
                  GetCoord(Cur, t).interval = "default_interval"

\* C27 as stated: when 3 `real` calls in a row have failed, which is when an
\* inverter poll raises UpdateFailed, the coordinator has update_interval =
\* error_interval.
C27_ThreeRealFailures ==
    \A t \in ListedTasks :
        (/\ t[1] = "inv"
         /\ obs.poll.kind = "UpdateFailed" /\ obs.poll.task = t
         /\ obs.poll.calls = 3) =>
            GetCoord(Cur, t).interval = "error_interval"

\* the third inverter poll in a row failed, each after 3 failed `real`
\* calls, and the interval was switched
C27_Witness ==
    \E t \in ListedTasks :
        /\ t[1] = "inv"
        /\ obs.poll.kind = "UpdateFailed" /\ obs.poll.task = t
        /\ obs.poll.calls = SILENT_RETRIES
        /\ obs.poll.before = MAX_FAILED_UPDATES - 1
        /\ GetCoord(Cur, t).interval = "error_interval"

\* C28: an inverter poll makes at most 3 `real` calls; it raises UpdateFailed
\* only when all 3 raised SungrowError, and when one of them succeeds the
\* poll succeeds and _failed_update_count is 0 after it, whatever number of
\* calls failed before; a battery poll makes exactly one `real_battery`
\* call, and raises UpdateFailed when that call raises SungrowError.
C28_SilentRetryAsymmetry ==
    [][\A t \in Tasks :
          /\ fr[t].silent < SILENT_RETRIES /\ fr'[t].silent < SILENT_RETRIES
          /\ (obs'.poll.kind # "none" /\ obs'.poll.task = t) =>
                /\ IF GetCoord(Cur, t).kind = "inv"
                   THEN /\ obs'.poll.calls \in 1..SILENT_RETRIES
                        /\ obs'.poll.kind = "UpdateFailed" =>
                              /\ obs'.poll.calls = SILENT_RETRIES
                              /\ obs'.call.kind = "SungrowError"
                        /\ obs'.call.kind = "ok" =>
                              /\ obs'.poll.kind = "ok"
                              /\ t \in PollTasks => GetCoord(Cur, t)'.failed = 0
                   ELSE /\ obs'.poll.calls = 1
                        /\ obs'.call.kind = "SungrowError" <=> obs'.poll.kind = "UpdateFailed"
                        /\ obs'.call.kind = "ok" <=> obs'.poll.kind = "ok"
          /\ (obs'.call.kind = "SungrowError" /\ obs'.call.task = t
              /\ obs'.call.service = "real" /\ fr[t].silent < SILENT_RETRIES - 1) =>
                /\ obs'.poll.kind = "none"
                /\ fr'[t].silent = fr[t].silent + 1
                /\ fr'[t].service = "real"
          /\ (obs'.call.kind = "SungrowError" /\ obs'.call.task = t
              /\ obs'.call.service = "real_battery") =>
                obs'.poll.kind = "UpdateFailed"]_vars

\* an inverter poll succeeded at its third `real` call
C28_Witness ==
    /\ obs.poll.kind = "ok"
    /\ obs.poll.task \in InvTasks
    /\ obs.poll.calls = SILENT_RETRIES

\* C29: a poll that fails changes nothing of its coordinator but
\* _failed_update_count and update_interval; every other listed coordinator,
\* the two coordinator lists, the re-scan timer, the discovery cycle and the
\* frames of the other tasks are as before, and the lock is free again.
C29_FailureIsolation ==
    [][\A t \in PollTasks :
          (obs'.poll.kind \in {"UpdateFailed", "other"} /\ obs'.poll.task = t) =>
              /\ Listed(t) /\ Listed(t)'
              /\ [GetCoord(Cur, t)' EXCEPT !.failed = GetCoord(Cur, t).failed,
                                           !.interval = GetCoord(Cur, t).interval,
                                           !.consec = GetCoord(Cur, t).consec]
                    = GetCoord(Cur, t)
              /\ \A u \in ListedTasks \ {t} : GetCoord(Cur, u)' = GetCoord(Cur, u)
              /\ Len(inverter_coordinators') = Len(inverter_coordinators)
              /\ Len(battery_coordinators') = Len(battery_coordinators)
              /\ rescan_timer' = rescan_timer
              /\ rescans' = rescans
              /\ new_listener' = new_listener
              /\ dispatched' = dispatched
              /\ entry_state' = entry_state
              /\ dloc' = dloc
              /\ \A u \in AllTasks \ {t} : fr'[u] = fr[u]
              /\ fr'[t] = IdleFrame
              /\ ~locked']_vars

\* a poll failed while another listed coordinator held data and the re-scan
\* timer was set
C29_Witness ==
    \E t \in ListedTasks, u \in ListedTasks :
        /\ t # u
        /\ obs.poll.kind = "UpdateFailed" /\ obs.poll.task = t
        /\ GetCoord(Cur, t).failed > 0
        /\ GetCoord(Cur, u).data # NoData
        /\ GetCoord(Cur, u).failed = 0
        /\ rescan_timer

\* the descriptors the for loop of _init_devices_inverter has before it in a
\* step that runs it: the list just received, or what is left after the
\* descriptor whose first refresh ended
LoopRuns ==
    \/ obs'.call.kind = "ok" /\ obs'.call.service = "devicelist"
    \/ /\ obs'.poll.kind = "ok" /\ obs'.poll.task = DiscTask
       /\ ~(dloc.stage = "inv" /\ IsHybrid(Head(dloc.infos)))

LoopInfos ==
    IF obs'.call.kind = "ok" /\ obs'.call.service = "devicelist"
    THEN [i \in 1..Len(obs'.call.data) |-> DeviceInfo(obs'.call.data[i])]
    ELSE Tail(dloc.infos)

\* C30: the for loop passes over every descriptor whose serial number is that
\* of a listed inverter coordinator and creates a coordinator for the first
\* descriptor whose serial number is not, with that descriptor's gateway id
\* and serial number; the gateway ids of the listed coordinators play no part.
C30_DedupBySerial ==
    [][LoopRuns =>
          LET R == LoopInfos
              E == Serials(inverter_coordinators')
              New == {k \in 1..Len(R) : R[k].device_sn \notin E}
          IN IF New = {}
             THEN /\ obs'.cycle.kind = "done"
                  /\ dloc' = IdleDloc
             ELSE LET k == CHOOSE n \in New : \A m \in New : n <= m IN
                  /\ dloc'.stage = "inv"
                  /\ dloc'.coord.device_sn = R[k].device_sn
                  /\ dloc'.coord.wi_net_id = R[k].wi_net_id
                  /\ dloc'.infos = SubSeq(R, k, Len(R))
                  /\ dloc'.skipped =
                        k - 1 + (IF obs'.call.service = "devicelist" THEN 0
                                 ELSE dloc.skipped)]_vars

\* a re-scan ended that passed over a descriptor and left two listed inverter
\* coordinators with one gateway id and two serial numbers, the later one
\* created by a re-scan: the descriptor passed over had the serial number of
\* the earlier one and another gateway id
C30_Witness ==
    /\ obs.cycle.kind = "done"
    /\ obs.cycle.mode = "rescan"
    /\ obs.cycle.skipped >= 1
    /\ \E i, j \in 1..Len(inverter_coordinators) :
          /\ i < j
          /\ inverter_coordinators[j].origin = "rescan"
          /\ inverter_coordinators[i].wi_net_id = inverter_coordinators[j].wi_net_id
          /\ inverter_coordinators[i].device_sn # inverter_coordinators[j].device_sn

\* C31: when a poll of a listed coordinator with a listener succeeds, every
\* description still in unregistered_descriptors whose key has a value in the
\* new data is removed from it and an entity is constructed for it in that
\* step; every one whose key is missing or null stays in it and no entity is
\* constructed; no entity is constructed for a description that was not in it.
C31_SeenKeyReporting ==
    [][\A t \in PollTasks :
          (obs'.poll.kind = "ok" /\ obs'.poll.task = t /\ Loop(t).listener) =>
              \A k \in Keys :
                  IF InSeq(k, Loop(t).unreg)
                  THEN IF Loop(t)'.data[k] = "value"
                       THEN /\ ~InSeq(k, Loop(t)'.unreg)
                            /\ Loop(t)'.reported[k] = Loop(t).reported[k] + 1
                       ELSE /\ InSeq(k, Loop(t)'.unreg)
                            /\ Loop(t)'.reported[k] = Loop(t).reported[k]
                  ELSE /\ ~InSeq(k, Loop(t)'.unreg)
                       /\ Loop(t)'.reported[k] = Loop(t).reported[k]]_vars

\* a successful poll left a key that is null in the snapshot tracked and
\* not reported
C31_Witness ==
    \E t \in ListedTasks : \E k \in Keys :
        /\ obs.poll.kind = "ok" /\ obs.poll.task = t
        /\ Loop(t).listener
        /\ Loop(t).data[k] = "null"
        /\ InSeq(k, Loop(t).unreg)
        /\ Loop(t).reported[k] = 0

\* C32: every listed coordinator holds data; a coordinator is appended to a
\* list only in the step in which its first refresh succeeds, and it is the
\* coordinator that was refreshed; a failed first refresh leaves both lists
\* as they are and drops the coordinator.
C32_ListedAfterFirstPoll ==
    /\ [](\A t \in ListedTasks : Loop(t).data # NoData /\ Loop(t).has_unreg)
    /\ [][/\ Len(inverter_coordinators') >= Len(inverter_coordinators)
          /\ Len(battery_coordinators') >= Len(battery_coordinators)
          /\ Len(inverter_coordinators') > Len(inverter_coordinators) =>
                /\ obs'.poll.kind = "ok" /\ obs'.poll.task = DiscTask
                /\ dloc.stage = "inv"
                /\ Len(inverter_coordinators') = Len(inverter_coordinators) + 1
                /\ inverter_coordinators'[Len(inverter_coordinators')].device_sn
                      = dloc.coord.device_sn
                /\ inverter_coordinators'[Len(inverter_coordinators')].data
                      = obs'.call.data
          /\ Len(battery_coordinators') > Len(battery_coordinators) =>
                /\ obs'.poll.kind = "ok" /\ obs'.poll.task = DiscTask
                /\ dloc.stage = "bat"
                /\ Len(battery_coordinators') = Len(battery_coordinators) + 1
                /\ battery_coordinators'[Len(battery_coordinators')].device_sn
                      = dloc.coord.device_sn
                /\ battery_coordinators'[Len(battery_coordinators')].data
                      = obs'.call.data
          /\ (obs'.poll.kind \in {"UpdateFailed", "other"} /\ obs'.poll.task = DiscTask) =>
                /\ inverter_coordinators' = inverter_coordinators
                /\ battery_coordinators' = battery_coordinators
                /\ dloc' = IdleDloc]_vars

\* the first refresh of a coordinator failed in a re-scan and nothing was
\* listed for its serial number
C32_Witness ==
    /\ obs.poll.kind = "UpdateFailed" /\ obs.poll.task = DiscTask
    /\ obs.cycle.mode = "rescan"
    /\ Len(inverter_coordinators) >= 1
    /\ \E sn \in 1..NumSn : sn \notin Serials(inverter_coordinators)

\* C33: a listed coordinator has update_interval = error_interval exactly
\* when its _failed_update_count is 3 or more and default_interval otherwise;
\* every poll of it that raises UpdateFailed adds exactly 1 to
\* _failed_update_count, every poll that succeeds leaves it at 0, and a
\* step in which no poll of it ends leaves it as it is.
C33_BackoffInvariant ==
    /\ [](\A t \in ListedTasks :
            Loop(t).interval = IF Loop(t).failed >= MAX_FAILED_UPDATES
                               THEN "error_interval" ELSE "default_interval")
    /\ [][\A t \in ListedTasks :
            /\ (obs'.poll.kind = "UpdateFailed" /\ obs'.poll.task = t) =>
                  Loop(t)'.failed = Loop(t).failed + 1
            /\ (obs'.poll.kind = "ok" /\ obs'.poll.task = t) =>
                  Loop(t)'.failed = 0
            /\ (obs'.poll.kind = "none" \/ obs'.poll.task # t) =>
                  (Listed(t)' => Loop(t)'.failed = Loop(t).failed)]_vars

\* a fourth poll in a row raised UpdateFailed and the coordinator stays at
\* the error interval
C33_Witness ==
    \E t \in ListedTasks :
        /\ obs.poll.kind = "UpdateFailed" /\ obs.poll.task = t
        /\ Loop(t).failed = MAX_FAILED_UPDATES + 1
        /\ Loop(t).interval = "error_interval"

\* C34: every message a task takes from the websocket as the response to its
\* request is the gateway's answer to the request this task sent.
C34_ResponseAssociation ==
    obs.recv.kind = "received" => obs.recv.of = obs.recv.task

\* the call in progress got a token-expired response and starts over
TokenExpiredRetry == obs.resp.kind = "service" /\ obs.resp.code = RESULT_TOKEN_EXPIRED

\* C35: when every await of the session completes, coordinator_lock is
\* always released again, and every task that waits for it gets it.
C35_LockLiveness ==
    /\ locked ~> ~locked
    /\ \A t \in PollTasks : (fr[t].pc = "lock_wait") ~> (fr[t].pc # "lock_wait")

\* C35, amended: when every await of the session completes, then unless
\* calls get token-expired responses again and again without end,
\* coordinator_lock is released again and again and every task that waits
\* for it gets it.
C35_ReleasedUnlessRetrying ==
    /\ []<>(~locked) \/ []<>TokenExpiredRetry
    /\ \A t \in PollTasks : []<>(fr[t].pc # "lock_wait") \/ []<>TokenExpiredRetry

\* a poll that got a token-expired response and started over has ended and
\* released the lock while another coordinator waits for it
C35_Witness ==
    /\ obs.poll.kind \in {"ok", "UpdateFailed"}
    /\ obs.poll.task \in PollTasks
    /\ obs.call.n106 >= 1
    /\ ~locked
    /\ \E u \in PollTasks : fr[u].pc = "lock_wait"

\* C36: also when a re-scan starts while an earlier discovery cycle awaits
\* the first refresh of a coordinator, no serial number has more than one
\* inverter coordinator or more than one battery coordinator.
C36_OverlapDedup ==
    \A sn \in 1..NumSn :
        /\ Cardinality({i \in 1..Len(inverter_coordinators) :
                           inverter_coordinators[i].device_sn = sn}) <= 1
        /\ Cardinality(BatteriesOf(sn)) <= 1

\* C37: a re-scan that got its device list and returned without an exception
\* leaves a battery coordinator for every hybrid inverter of that list.
C37_HybridCompleted ==
    (/\ obs.call.kind = "ok" /\ obs.call.service = "devicelist"
     /\ obs.cycle.kind = "done" /\ obs.cycle.mode = "rescan") =>
        \A i \in 1..Len(obs.call.data) :
            obs.call.data[i].dev_type = DEV_TYPE_HYBRID =>
                /\ obs.call.data[i].dev_sn \in Serials(inverter_coordinators)
                /\ BatteriesOf(obs.call.data[i].dev_sn) # {}

\* C38: when the first refresh of a coordinator raises UpdateFailed in a
\* re-scan, the re-scan does not end with an exception, and when the rest of
\* its device list holds a serial number that has no coordinator yet the
\* re-scan goes on to it.
C38_CycleSurvivesFailedFirstPoll ==
    [][(/\ obs'.poll.kind = "UpdateFailed" /\ obs'.poll.task = DiscTask
        /\ dloc.mode = "rescan") =>
            /\ obs'.cycle.kind \notin {"ConfigEntryNotReady", "other"}
            /\ (\E k \in 2..Len(dloc.infos) :
                    dloc.infos[k].device_sn \notin Serials(inverter_coordinators)) =>
                  /\ fr'[DiscTask].pc # "idle"
                  /\ dloc'.stage = "inv"]_vars

\* C39: once a re-scan has returned, every coordinator it appended, battery
\* coordinators included, has the sensor platform's listener on it.
C39_RescanLoopsHandedOver ==
    (entry_state = "loaded" /\ fr[DiscTask].pc = "idle") =>
        /\ \A i \in 1..Len(inverter_coordinators) :
              inverter_coordinators[i].origin = "rescan" => inverter_coordinators[i].listener
        /\ \A i \in 1..Len(battery_coordinators) :
              battery_coordinators[i].origin = "rescan" => battery_coordinators[i].listener

====
